---- MODULE Spec2Model ----
(***************************************************************************)
(* Model of the four dataset-repair passes of klarkkyyy/dataMining:        *)
(*   platform  correct_social_platforms.py                                 *)
(*   job       fix_job_types_by_age.py                                     *)
(*   teen      fix_teen_data.py                                            *)
(*   prod      recalibrate_productivity_scores.py                          *)
(*                                                                         *)
(* Units.  An age is an integer number of thousandths of a year (19.999 is *)
(* 19999), a score or a duration an integer number of hundredths (9.8 is   *)
(* 980).  A numeric cell of the CSV file is <<n>> when it is present and   *)
(* << >> when it is empty (csv: '', pandas: NaN).  A text cell is a        *)
(* string, "" when empty.  Probabilities are percentages.                  *)
(***************************************************************************)
EXTENDS Integers, Sequences, FiniteSets, TLC

VARIABLES
  pass,             \* which script runs
  dataset,          \* the input file as it was before the run (history)
  input_file,       \* the path the run reads
  output_file,      \* the path the run writes
  run,              \* 1 for the run, 2 for a second, fresh run on the same input
  first,            \* what the first run wrote and drew (history)
  disk,             \* path -> rows of the file at that path
  rows,             \* the rows held in memory (df, or the list "rows")
  i,                \* position of the running loop (1-based row number)
  pc,               \* position in the script
  age_group_means,  \* recalibrate_productivity_scores: bucket -> mean
  groups,           \* per processed row: the bucket the pass computed for it
  drawlog           \* the draws taken from the generator, in order

vars == <<pass, dataset, input_file, output_file, run, first, disk, rows, i, pc,
         age_group_means, groups, drawlog>>

\* what a run is started with, and the history of an earlier run
setup == <<pass, dataset, input_file, output_file, run, first>>

-----------------------------------------------------------------------------
(* Bounds of the model *)

\* longest dataset
MaxRows == 2
\* uniform(a, b) is sampled at a + (b - a) * k / UGrid, k in 0..UGrid
UGrid == 1
\* most rows of a dataset aged exactly 18 or 19, the rows the teen pass redraws
MaxExpand == 1

-----------------------------------------------------------------------------
(* Cells *)

None == << >>
Some(n) == <<n>>
Val(c) == c[1]
Yr(n) == n * 1000

\* a cell whose text is not a number, such as "abc"
Garbled == <<0, 0>>
\* float(age) raises ValueError
float_raises(age) == age = Garbled
\* int(age): truncation, ages are never negative here
Trunc(age) == Val(age) \div 1000

NoGroup == "None"

\* random.choices(labels, weights) / np.random.choice(labels, p): every label
\* of positive weight can come out
Choice(labels, probs) == {labels[k] : k \in {j \in DOMAIN labels : probs[j] > 0}}

\* a generator whose u may exceed 1
Uniform_beyond(a, b) == {a + ((b - a) * k) \div UGrid : k \in 0..(UGrid + 1)}

\* random.uniform(a, b) / np.random.uniform(a, b): a + (b - a) * u, u in [0, 1]
Uniform(a, b) == {a + ((b - a) * k) \div UGrid : k \in 0..UGrid}

-----------------------------------------------------------------------------
(* correct_social_platforms.py *)

AGE_PLATFORM_PROBABILITIES ==
  [teen         |-> [platforms |-> <<"TikTok", "Instagram", "Twitter", "Facebook">>,
                     probabilities |-> <<45, 35, 15, 5>>],
   young_adult  |-> [platforms |-> <<"Instagram", "TikTok", "Twitter", "Facebook">>,
                     probabilities |-> <<40, 30, 20, 10>>],
   adult        |-> [platforms |-> <<"Facebook", "Instagram", "Twitter", "Telegram">>,
                     probabilities |-> <<35, 30, 20, 15>>],
   middle_aged  |-> [platforms |-> <<"Facebook", "Instagram", "Twitter", "Telegram">>,
                     probabilities |-> <<50, 25, 15, 10>>],
   mature_adult |-> [platforms |-> <<"Facebook", "Instagram", "Twitter", "Telegram">>,
                     probabilities |-> <<60, 20, 15, 5>>],
   senior       |-> [platforms |-> <<"Facebook", "Instagram", "Twitter", "Telegram">>,
                     probabilities |-> <<70, 15, 10, 5>>]]

get_age_group(age) ==
  IF age = None THEN NoGroup
  ELSE LET a == Val(age) IN
       IF Yr(18) <= a /\ a < Yr(20) THEN "teen"
       ELSE IF Yr(20) <= a /\ a < Yr(30) THEN "young_adult"
       ELSE IF Yr(30) <= a /\ a < Yr(40) THEN "adult"
       ELSE IF Yr(40) <= a /\ a < Yr(50) THEN "middle_aged"
       ELSE IF Yr(50) <= a /\ a < Yr(60) THEN "mature_adult"
       ELSE IF a >= Yr(60) THEN "senior"
       ELSE NoGroup

\* the possible results: v the platform returned, n the draws taken
assign_platform_by_age(age) ==
  IF age = None THEN {[v |-> "", n |-> 0]}
  ELSE LET age_group == get_age_group(age) IN
       IF age_group = NoGroup THEN {[v |-> "", n |-> 0]}
       ELSE {[v |-> p, n |-> 1] :
               p \in Choice(AGE_PLATFORM_PROBABILITIES[age_group].platforms,
                            AGE_PLATFORM_PROBABILITIES[age_group].probabilities)}

-----------------------------------------------------------------------------
(* fix_job_types_by_age.py *)

\* job_age_branch with the first test narrowed to age 18
job_age_branch_18only(age) ==
  LET a == Trunc(age) IN
  IF a \in {18} THEN "18-19"
  ELSE IF a \in {20, 21, 22} THEN "20-22"
  ELSE IF a \in {23, 24} THEN "23-24"
  ELSE IF 25 <= a /\ a <= 29 THEN "25-29"
  ELSE IF 30 <= a /\ a <= 39 THEN "30-39"
  ELSE IF 40 <= a /\ a <= 49 THEN "40-49"
  ELSE IF 50 <= a /\ a <= 59 THEN "50-59"
  ELSE IF 60 <= a /\ a <= 65 THEN "60-65"
  ELSE "else"

\* the branch of assign_realistic_job that int(age) selects
job_age_branch(age) ==
  LET a == Trunc(age) IN
  IF a \in {18, 19} THEN "18-19"
  ELSE IF a \in {20, 21, 22} THEN "20-22"
  ELSE IF a \in {23, 24} THEN "23-24"
  ELSE IF 25 <= a /\ a <= 29 THEN "25-29"
  ELSE IF 30 <= a /\ a <= 39 THEN "30-39"
  ELSE IF 40 <= a /\ a <= 49 THEN "40-49"
  ELSE IF 50 <= a /\ a <= 59 THEN "50-59"
  ELSE IF 60 <= a /\ a <= 65 THEN "60-65"
  ELSE "else"

\* the labels and weights each branch passes to np.random.choice
JOB_BRANCH_CHOICE ==
  [b \in {"18-19", "20-22", "23-24", "25-29", "30-39", "40-49", "50-59", "60-65", "else"} |->
    CASE b = "18-19" -> [jobs |-> <<"Student", "Unemployed", "IT", "Other">>,
                         p |-> <<85, 10, 3, 2>>]
      [] b = "20-22" -> [jobs |-> <<"Student", "Unemployed", "IT", "Other">>,
                         p |-> <<65, 15, 15, 5>>]
      [] b = "23-24" -> [jobs |-> <<"Student", "IT", "Finance", "Health", "Education", "Unemployed", "Other">>,
                         p |-> <<55, 15, 8, 5, 5, 10, 2>>]
      [] b = "25-29" -> [jobs |-> <<"IT", "Finance", "Health", "Education", "Student", "Unemployed", "Other">>,
                         p |-> <<25, 20, 15, 15, 10, 10, 5>>]
      [] b = "30-39" -> [jobs |-> <<"Finance", "IT", "Health", "Education", "Unemployed", "Student", "Other">>,
                         p |-> <<25, 20, 18, 15, 10, 5, 7>>]
      [] b = "40-49" -> [jobs |-> <<"Finance", "Health", "IT", "Education", "Unemployed", "Student", "Other">>,
                         p |-> <<28, 20, 18, 18, 10, 3, 3>>]
      [] b = "50-59" -> [jobs |-> <<"Finance", "Health", "Education", "IT", "Unemployed", "Student", "Other">>,
                         p |-> <<25, 22, 20, 15, 12, 3, 3>>]
      [] b = "60-65" -> [jobs |-> <<"Unemployed", "Finance", "Health", "Education", "IT", "Student">>,
                         p |-> <<40, 20, 15, 15, 8, 2>>]
      [] OTHER       -> [jobs |-> <<"Unemployed", "Finance", "Health", "Education">>,
                         p |-> <<60, 15, 15, 10>>]]

\* assign_realistic_job without the pd.isna test: a missing age falls through
\* to the last branch
assign_realistic_job_noisna(age) ==
  LET b == IF age = None THEN "else" ELSE job_age_branch(age) IN
  {[v |-> j, n |-> 1] : j \in Choice(JOB_BRANCH_CHOICE[b].jobs, JOB_BRANCH_CHOICE[b].p)}

\* the possible results: v the job returned, n the draws taken
assign_realistic_job(age) ==
  IF age = None THEN {[v |-> "Student", n |-> 0]}
  ELSE {[v |-> j, n |-> 1] :
          j \in Choice(JOB_BRANCH_CHOICE[job_age_branch(age)].jobs,
                       JOB_BRANCH_CHOICE[job_age_branch(age)].p)}

-----------------------------------------------------------------------------
(* fix_teen_data.py *)

TEEN_AGE_PLATFORM_PROBABILITIES ==
  [early_teen       |-> [platforms |-> <<"TikTok", "Instagram", "Snapchat", "Twitter", "Facebook">>,
                         probabilities |-> <<65, 20, 10, 3, 2>>],
   high_school      |-> [platforms |-> <<"Instagram", "TikTok", "Snapchat", "Twitter", "Facebook">>,
                         probabilities |-> <<45, 35, 12, 5, 3>>],
   college_freshman |-> [platforms |-> <<"Instagram", "TikTok", "Twitter", "Snapchat", "Facebook">>,
                         probabilities |-> <<40, 35, 15, 5, 5>>]]

TeenPlatforms == {"TikTok", "Instagram", "Snapchat", "Twitter", "Facebook"}

SOCIAL_MEDIA_TIME_RANGES ==
  [early_teen       |-> [p \in TeenPlatforms |->
                          CASE p = "TikTok"    -> <<600, 900>>
                            [] p = "Instagram" -> <<450, 700>>
                            [] p = "Snapchat"  -> <<350, 600>>
                            [] p = "Twitter"   -> <<200, 450>>
                            [] p = "Facebook"  -> <<200, 450>>],
   high_school      |-> [p \in TeenPlatforms |->
                          CASE p = "Instagram" -> <<500, 800>>
                            [] p = "TikTok"    -> <<450, 750>>
                            [] p = "Snapchat"  -> <<300, 550>>
                            [] p = "Twitter"   -> <<150, 400>>
                            [] p = "Facebook"  -> <<150, 400>>],
   college_freshman |-> [p \in TeenPlatforms |->
                          CASE p = "TikTok"    -> <<450, 800>>
                            [] p = "Instagram" -> <<350, 650>>
                            [] p = "Twitter"   -> <<150, 400>>
                            [] p = "Snapchat"  -> <<150, 400>>
                            [] p = "Facebook"  -> <<150, 400>>]]

get_teen_age_group(age) ==
  IF age = None THEN NoGroup
  ELSE LET a == Val(age) IN
       IF Yr(13) <= a /\ a <= Yr(14) THEN "early_teen"
       ELSE IF Yr(15) <= a /\ a <= Yr(17) THEN "high_school"
       ELSE IF Yr(18) <= a /\ a <= Yr(19) THEN "college_freshman"
       ELSE NoGroup

\* the possible results: v the platform returned ("" for Python's None), n the draws
assign_platform_by_teen_age(age) ==
  LET age_group == get_teen_age_group(age) IN
  IF age_group = NoGroup THEN {[v |-> "", n |-> 0]}
  ELSE {[v |-> p, n |-> 1] :
          p \in Choice(TEEN_AGE_PLATFORM_PROBABILITIES[age_group].platforms,
                       TEEN_AGE_PLATFORM_PROBABILITIES[age_group].probabilities)}

\* teen_time_range that never finds the platform and takes the default range
teen_time_range_default(age_group, platform) ==
  IF age_group = "early_teen" THEN <<200, 450>>
  ELSE IF age_group = "high_school" THEN <<150, 400>>
  ELSE <<150, 400>>

\* the (min_time, max_time) that assign_social_media_time samples between
teen_time_range(age_group, platform) ==
  IF platform \in DOMAIN SOCIAL_MEDIA_TIME_RANGES[age_group]
  THEN SOCIAL_MEDIA_TIME_RANGES[age_group][platform]
  ELSE IF age_group = "early_teen" THEN <<200, 450>>
  ELSE IF age_group = "high_school" THEN <<150, 400>>
  ELSE <<150, 400>>

\* the possible results: v the time cell (None for Python's None), n the draws
assign_social_media_time(age, platform) ==
  LET age_group == get_teen_age_group(age) IN
  IF age_group = NoGroup \/ platform = "" THEN {[v |-> None, n |-> 0]}
  ELSE LET r == teen_time_range(age_group, platform) IN
       {[v |-> Some(t), n |-> 1] : t \in Uniform(r[1], r[2])}

\* the ages expand_teen_ages replaces, and the ages it draws from
TEEN_OLD_AGES == {Some(Yr(18)), Some(Yr(19))}
TEEN_NEW_AGES == {Some(Yr(a)) : a \in 13..19}
\* the possible values of one element of new_ages (one draw each)
new_ages == {[v |-> a, n |-> 1] : a \in TEEN_NEW_AGES}

-----------------------------------------------------------------------------
(* recalibrate_productivity_scores.py *)

AGE_GROUP_GAPS ==
  [teen        |-> [range |-> <<18, 19>>, gap_min |-> 150,  gap_max |-> 250],
   young_adult |-> [range |-> <<20, 29>>, gap_min |-> 50,   gap_max |-> 150],
   adult       |-> [range |-> <<30, 39>>, gap_min |-> 0,    gap_max |-> 50],
   middle_aged |-> [range |-> <<40, 55>>, gap_min |-> 0,    gap_max |-> 80],
   senior      |-> [range |-> <<56, 65>>, gap_min |-> 0-50, gap_max |-> 100]]

\* the keys of AGE_GROUP_GAPS in the order the dict holds them
AGE_GROUP_ORDER == <<"teen", "young_adult", "adult", "middle_aged", "senior">>

get_age_group_gaps(age) ==
  IF age = None THEN NoGroup
  ELSE LET a == Val(age)
           hits == {k \in DOMAIN AGE_GROUP_ORDER :
                      /\ Yr(AGE_GROUP_GAPS[AGE_GROUP_ORDER[k]].range[1]) <= a
                      /\ a <= Yr(AGE_GROUP_GAPS[AGE_GROUP_ORDER[k]].range[2])}
       IN IF hits = {} THEN NoGroup
          ELSE AGE_GROUP_ORDER[CHOOSE k \in hits : \A m \in hits : k <= m]

\* sum(scores) for the cells of a sequence of numbers
RECURSIVE SumSeq(_)
SumSeq(s) == IF s = << >> THEN 0 ELSE Head(s) + SumSeq(Tail(s))

\* group_scores that puts the scores of every bucket in one list
group_scores_allrows(file, g) ==
  LET idx == {k \in DOMAIN file :
                /\ file[k].age # None
                /\ file[k].actual_productivity_score # None
                /\ get_age_group_gaps(file[k].age) # NoGroup}
      RECURSIVE Take(_)
      Take(k) == IF k > Len(file) THEN << >>
                 ELSE IF k \in idx
                      THEN <<Val(file[k].actual_productivity_score)>> \o Take(k + 1)
                      ELSE Take(k + 1)
  IN Take(1)

\* the actual scores of the rows of a bucket that have both age and score
group_scores(file, g) ==
  LET idx == {k \in DOMAIN file :
                /\ file[k].age # None
                /\ file[k].actual_productivity_score # None
                /\ get_age_group_gaps(file[k].age) = g}
      RECURSIVE Take(_)
      Take(k) == IF k > Len(file) THEN << >>
                 ELSE IF k \in idx
                      THEN <<Val(file[k].actual_productivity_score)>> \o Take(k + 1)
                      ELSE Take(k + 1)
  IN Take(1)

\* get_age_group(age) raises for a row that has both age and score
means_raises(file) ==
  \E k \in DOMAIN file :
    file[k].actual_productivity_score # None /\ float_raises(file[k].age)

\* bucket -> mean, for the buckets that have a score (sum / len)
calculate_age_group_means(file) ==
  LET have == {g \in DOMAIN AGE_GROUP_GAPS : group_scores(file, g) # << >>}
  IN [g \in have |-> SumSeq(group_scores(file, g)) \div Len(group_scores(file, g))]

\* clamp_score without the lower limit
clamp_score_upper(x) == IF 1000 < x THEN 1000 ELSE x

\* max(0.0, min(10.0, x))
clamp_score(x) ==
  LET lo == IF 1000 < x THEN 1000 ELSE x
  IN IF lo > 0 THEN lo ELSE 0

-----------------------------------------------------------------------------
(* The runs: each script's __main__ *)

Passes == {"platform", "job", "teen", "prod"}

\* input_file / output_file of each __main__
InputFile(p) == IF p = "platform" THEN "fixed.csv" ELSE "CORRECTED.csv"
OutputFile(p) == "CORRECTED.csv"
Paths == {"fixed.csv", "CORRECTED.csv"}

\* Two rows of a dataset that differ in every column but age
Row(age, variant) ==
  IF variant = 1
  THEN [age |-> age, gender |-> "Male", job_type |-> "Finance",
        social_platform_preference |-> "Telegram",
        daily_social_media_time |-> Some(100),
        actual_productivity_score |-> Some(980),
        perceived_productivity_score |-> Some(300)]
  ELSE [age |-> age, gender |-> "Female", job_type |-> "Student",
        social_platform_preference |-> "Facebook",
        daily_social_media_time |-> None,
        actual_productivity_score |-> IF variant = 2 THEN Some(20) ELSE None,
        perceived_productivity_score |-> None]

\* The ages the datasets of a pass are drawn from: missing, below, inside,
\* between and above the buckets of the pass
Ages(p) ==
  CASE p = "platform" -> {None, Some(16000), Some(19999), Some(20000), Some(35000)}
    [] p = "job"      -> {None, Some(16000), Some(18000), Some(19999), Some(22000), Some(35000)}
    [] p = "teen"     -> {None, Some(16000), Some(18000), Some(19500), Some(20000)}
    [] p = "prod"     -> {None, Some(16000), Some(18000), Some(19500), Some(57000)}

\* The teen pass has one variant per age: the rows of its mask carry variant 1
Variants(p, a) ==
  IF p = "prod" THEN {1, 2, 3}
  ELSE IF p = "teen" THEN (IF a \in {Some(16000), Some(18000)} THEN {1} ELSE {2})
  ELSE {1, 2}

Pool(p) == UNION {{Row(a, v) : v \in Variants(p, a)} : a \in Ages(p)}

\* how many rows expand_teen_ages will redraw
Expanding(d) == Cardinality({k \in DOMAIN d : d[k].age \in TEEN_OLD_AGES})

Datasets(p) ==
  {d \in UNION {[1..n -> Pool(p)] : n \in 0..MaxRows} : Expanding(d) <= MaxExpand}

NoMeans == [g \in {} |-> 0]

\* no run has finished yet
NoFirst == [out |-> << >>, draws |-> << >>]

Init ==
  /\ pass \in Passes
  /\ dataset \in Datasets(pass)
  /\ input_file = InputFile(pass)
  /\ output_file = OutputFile(pass)
  /\ run = 1
  /\ first = NoFirst
  /\ disk = [f \in Paths |-> IF f = input_file THEN dataset ELSE << >>]
  /\ rows = << >>
  /\ i = 1
  /\ pc = "start"
  /\ age_group_means = NoMeans
  /\ groups = << >>
  /\ drawlog = << >>

\* a script that never seeds: the generator starts from the clock
SeededNever == FALSE

\* random.seed(42) / np.random.seed(42) at import: every run starts the
\* generator from the same state, and every draw is taken from that generator
SeededAtImport == TRUE

\* two calls of the generator are the same call
SameCall(c, d) == c.what = d.what /\ c.row = d.row /\ c.from = d.from

\* The value the generator returns is a function of the seed and of the calls
\* made since: the k-th call of a second run that has made the calls of the
\* first run, with the results of the first run, returns what it returned then.
seeded_draw(k, what, S, r) ==
  LET n == Len(drawlog) + 1
      call == [row |-> k, what |-> what, from |-> {x.v : x \in S}, v |-> r.v]
  IN (/\ SeededAtImport
      /\ run = 2
      /\ n \in DOMAIN first.draws
      /\ SameCall(call, first.draws[n])
      /\ \A j \in 1..(n - 1) : SameCall(drawlog[j], first.draws[j])
                                /\ drawlog[j].v = first.draws[j].v)
       => r.v = first.draws[n].v

\* the call made for row k with result r out of the results S: the draw it
\* takes, if any, comes from the generator and is appended to the log
Drawn(k, what, S, r) ==
  IF r.n = 0 THEN drawlog' = drawlog
  ELSE /\ seeded_draw(k, what, S, r)
       /\ drawlog' = Append(drawlog, [row |-> k, what |-> what,
                                      from |-> {x.v : x \in S}, v |-> r.v])

-----------------------------------------------------------------------------
(* correct_social_platforms.py: correct_csv_platforms *)

\* open(input_file, 'r'), open(output_file, 'w'), writeheader()
PlatformOpen ==
  /\ pass = "platform" /\ pc = "start"
  /\ disk' = [disk EXCEPT ![output_file] = << >>]
  /\ i' = 1
  /\ pc' = IF input_file = output_file THEN "failed" ELSE "loop"
  /\ UNCHANGED <<setup, rows, age_group_means, groups, drawlog>>

\* PlatformRow without the "if age:" test
PlatformRow_noif ==
  /\ pass = "platform" /\ pc = "loop"
  /\ i <= Len(disk[input_file])
  /\ LET row == disk[input_file][i] IN
     \E r \in assign_platform_by_age(row.age) :
       /\ disk' = [disk EXCEPT ![output_file] =
                     Append(@, [row EXCEPT !.social_platform_preference = r.v])]
       /\ groups' = Append(groups, get_age_group(row.age))
       /\ Drawn(i, "platform", assign_platform_by_age(row.age), r)
  /\ i' = i + 1
  /\ UNCHANGED <<setup, rows, pc, age_group_means>>

\* one turn of "for row in reader"
PlatformRow ==
  /\ pass = "platform" /\ pc = "loop"
  /\ i <= Len(disk[input_file])
  /\ LET row == disk[input_file][i] IN
     IF float_raises(row.age)
     THEN /\ pc' = "failed"
          /\ UNCHANGED <<disk, groups, drawlog, i>>
     ELSE /\ IF row.age # None
             THEN \E r \in assign_platform_by_age(row.age) :
                    /\ disk' = [disk EXCEPT ![output_file] =
                                  Append(@, [row EXCEPT
                                               !.social_platform_preference = r.v])]
                    /\ groups' = Append(groups, get_age_group(row.age))
                    /\ Drawn(i, "platform", assign_platform_by_age(row.age), r)
             ELSE /\ disk' = [disk EXCEPT ![output_file] = Append(@, row)]
                  /\ groups' = Append(groups, "skip")
                  /\ drawlog' = drawlog
          /\ i' = i + 1
          /\ pc' = pc
  /\ UNCHANGED <<setup, rows, age_group_means>>

\* the reader is exhausted: both files are closed
PlatformClose ==
  /\ pass = "platform" /\ pc = "loop"
  /\ i > Len(disk[input_file])
  /\ pc' = "done"
  /\ UNCHANGED <<setup, disk, rows, i, age_group_means, groups, drawlog>>

-----------------------------------------------------------------------------
(* fix_job_types_by_age.py: fix_job_types *)

\* df = pd.read_csv(input_file)
JobRead ==
  /\ pass = "job" /\ pc = "start"
  /\ rows' = disk[input_file]
  /\ i' = 1
  /\ pc' = "apply"
  /\ UNCHANGED <<setup, disk, age_group_means, groups, drawlog>>

\* one call of assign_realistic_job by df['age'].apply; the Series it builds
\* becomes the job_type column, held here in rows[i].job_type
JobApply ==
  /\ pass = "job" /\ pc = "apply"
  /\ i <= Len(rows)
  /\ \E r \in assign_realistic_job(rows[i].age) :
       /\ rows' = [rows EXCEPT ![i].job_type = r.v]
       /\ Drawn(i, "job", assign_realistic_job(rows[i].age), r)
  /\ groups' = Append(groups, IF rows[i].age = None THEN "skip"
                              ELSE job_age_branch(rows[i].age))
  /\ i' = i + 1
  /\ UNCHANGED <<setup, disk, pc, age_group_means>>

\* df.to_csv(output_file, index=False)
JobWrite ==
  /\ pass = "job" /\ pc = "apply"
  /\ i > Len(rows)
  /\ disk' = [disk EXCEPT ![output_file] = rows]
  /\ pc' = "done"
  /\ UNCHANGED <<setup, rows, i, age_group_means, groups, drawlog>>

-----------------------------------------------------------------------------
(* fix_teen_data.py: main *)

\* df = pd.read_csv(input_file)
TeenRead ==
  /\ pass = "teen" /\ pc = "start"
  /\ rows' = disk[input_file]
  /\ i' = 1
  /\ pc' = "expand"
  /\ UNCHANGED <<setup, disk, age_group_means, groups, drawlog>>

\* expand_teen_ages: the element of new_ages drawn for row i of teen_mask
\* (a row outside the mask takes no element)
TeenExpandRow ==
  /\ pass = "teen" /\ pc = "expand"
  /\ i <= Len(rows)
  /\ IF rows[i].age \in TEEN_OLD_AGES
     THEN \E r \in new_ages :
            /\ rows' = [rows EXCEPT ![i].age = r.v]
            /\ Drawn(i, "age", new_ages, r)
     ELSE UNCHANGED <<rows, drawlog>>
  /\ i' = i + 1
  /\ UNCHANGED <<setup, disk, pc, age_group_means, groups>>

\* expand_teen_ages returns; update_teen_platforms_and_time starts
TeenExpandEnd ==
  /\ pass = "teen" /\ pc = "expand"
  /\ i > Len(rows)
  /\ i' = 1
  /\ pc' = "platform"
  /\ UNCHANGED <<setup, disk, rows, age_group_means, groups, drawlog>>

\* TeenPlatformRow with the mask of expand_teen_ages (ages 18 and 19 only)
TeenPlatformRow_oldmask ==
  /\ pass = "teen" /\ pc = "platform"
  /\ i <= Len(rows)
  /\ IF dataset[i].age \in TEEN_OLD_AGES
     THEN \E r \in assign_platform_by_teen_age(rows[i].age) :
            /\ rows' = [rows EXCEPT ![i].social_platform_preference = r.v]
            /\ groups' = Append(groups, get_teen_age_group(rows[i].age))
            /\ Drawn(i, "platform", assign_platform_by_teen_age(rows[i].age), r)
     ELSE /\ groups' = Append(groups, "skip")
          /\ UNCHANGED <<rows, drawlog>>
  /\ i' = i + 1
  /\ UNCHANGED <<setup, disk, pc, age_group_means>>

\* first loop over teen_indices (a row outside teen_mask is not visited)
TeenPlatformRow ==
  /\ pass = "teen" /\ pc = "platform"
  /\ i <= Len(rows)
  /\ IF rows[i].age \in TEEN_NEW_AGES
     THEN \E r \in assign_platform_by_teen_age(rows[i].age) :
            /\ rows' = [rows EXCEPT ![i].social_platform_preference = r.v]
            /\ groups' = Append(groups, get_teen_age_group(rows[i].age))
            /\ Drawn(i, "platform", assign_platform_by_teen_age(rows[i].age), r)
     ELSE /\ groups' = Append(groups, "skip")
          /\ UNCHANGED <<rows, drawlog>>
  /\ i' = i + 1
  /\ UNCHANGED <<setup, disk, pc, age_group_means>>

TeenPlatformEnd ==
  /\ pass = "teen" /\ pc = "platform"
  /\ i > Len(rows)
  /\ i' = 1
  /\ pc' = "time"
  /\ UNCHANGED <<setup, disk, rows, age_group_means, groups, drawlog>>

\* TeenTimeRow walking teen_indices from the last row to the first
TeenTimeRow_backwards ==
  /\ pass = "teen" /\ pc = "time"
  /\ i <= Len(rows)
  /\ LET k == Len(rows) + 1 - i IN
     IF rows[k].age \in TEEN_NEW_AGES
     THEN \E r \in assign_social_media_time(rows[k].age,
                                            rows[k].social_platform_preference) :
            /\ rows' = IF r.v # None
                       THEN [rows EXCEPT ![k].daily_social_media_time = r.v]
                       ELSE rows
            /\ Drawn(k, "time",
                     assign_social_media_time(rows[k].age,
                                              rows[k].social_platform_preference), r)
     ELSE UNCHANGED <<rows, drawlog>>
  /\ i' = i + 1
  /\ UNCHANGED <<setup, disk, pc, age_group_means, groups>>

\* second loop over teen_indices
TeenTimeRow ==
  /\ pass = "teen" /\ pc = "time"
  /\ i <= Len(rows)
  /\ IF rows[i].age \in TEEN_NEW_AGES
     THEN \E r \in assign_social_media_time(rows[i].age, rows[i].social_platform_preference) :
            /\ rows' = IF r.v # None
                       THEN [rows EXCEPT ![i].daily_social_media_time = r.v]
                       ELSE rows
            /\ Drawn(i, "time",
                     assign_social_media_time(rows[i].age,
                                              rows[i].social_platform_preference), r)
     ELSE UNCHANGED <<rows, drawlog>>
  /\ i' = i + 1
  /\ UNCHANGED <<setup, disk, pc, age_group_means, groups>>

\* df.to_csv(output_file, index=False)
TeenWrite ==
  /\ pass = "teen" /\ pc = "time"
  /\ i > Len(rows)
  /\ disk' = [disk EXCEPT ![output_file] = rows]
  /\ pc' = "done"
  /\ UNCHANGED <<setup, rows, i, age_group_means, groups, drawlog>>

-----------------------------------------------------------------------------
(* recalibrate_productivity_scores.py: recalibrate_productivity_scores *)

\* first pass: age_group_means = calculate_age_group_means(input_file)
ProdMeans ==
  /\ pass = "prod" /\ pc = "start"
  /\ IF means_raises(disk[input_file])
     THEN /\ pc' = "failed"
          /\ UNCHANGED <<age_group_means, rows, i>>
     ELSE /\ age_group_means' = calculate_age_group_means(disk[input_file])
          /\ rows' = << >>
          /\ i' = 1
          /\ pc' = "loop"
  /\ UNCHANGED <<setup, disk, groups, drawlog>>

\* recalibrate_row that writes the new score under the wrong column name
recalibrate_row_wrongcol(row, means) ==
  LET age == row.age
      age_group == get_age_group_gaps(age)
  IN
  IF age = None THEN {[row |-> row, g |-> "skip", n |-> 0, v |-> 0]}
  ELSE IF age_group = NoGroup THEN {[row |-> row, g |-> NoGroup, n |-> 0, v |-> 0]}
  ELSE IF row.actual_productivity_score = None /\ age_group \notin DOMAIN means
  THEN {[row |-> row, g |-> age_group, n |-> 0, v |-> 0]}
  ELSE LET actual == IF row.actual_productivity_score = None
                     THEN means[age_group]
                     ELSE Val(row.actual_productivity_score)
       IN {[row |-> [row EXCEPT !.actual_productivity_score = Some(actual),
                                !.daily_social_media_time =
                                   Some(clamp_score(actual + gap))],
            g |-> age_group, n |-> 1, v |-> gap] :
             gap \in Uniform(AGE_GROUP_GAPS[age_group].gap_min,
                             AGE_GROUP_GAPS[age_group].gap_max)}

\* the results of one turn of "for row in reader" on a row: the row
\* appended to rows, the bucket computed, the draws taken, the gap drawn
recalibrate_row(row, means) ==
  LET age == row.age
      age_group == get_age_group_gaps(age)
  IN
  IF age = None THEN {[row |-> row, g |-> "skip", n |-> 0, v |-> 0]}
  ELSE IF age_group = NoGroup THEN {[row |-> row, g |-> NoGroup, n |-> 0, v |-> 0]}
  ELSE IF row.actual_productivity_score = None /\ age_group \notin DOMAIN means
  THEN {[row |-> row, g |-> age_group, n |-> 0, v |-> 0]}
  ELSE LET actual == IF row.actual_productivity_score = None
                     THEN means[age_group]
                     ELSE Val(row.actual_productivity_score)
       IN {[row |-> [row EXCEPT !.actual_productivity_score = Some(actual),
                                !.perceived_productivity_score =
                                   Some(clamp_score(actual + gap))],
            g |-> age_group, n |-> 1, v |-> gap] :
             gap \in Uniform(AGE_GROUP_GAPS[age_group].gap_min,
                             AGE_GROUP_GAPS[age_group].gap_max)}

\* ProdRow whose skip of a row without age does not append the row
ProdRow_dropskipped ==
  /\ pass = "prod" /\ pc = "loop"
  /\ i <= Len(disk[input_file])
  /\ \E r \in recalibrate_row(disk[input_file][i], age_group_means) :
       /\ rows' = IF r.g = "skip" THEN rows ELSE Append(rows, r.row)
       /\ groups' = Append(groups, r.g)
       /\ Drawn(i, "gap", recalibrate_row(disk[input_file][i], age_group_means), r)
  /\ i' = i + 1
  /\ UNCHANGED <<setup, disk, pc, age_group_means>>

\* one turn of "for row in reader": the row is read, rewritten and appended
ProdRow ==
  /\ pass = "prod" /\ pc = "loop"
  /\ i <= Len(disk[input_file])
  /\ IF float_raises(disk[input_file][i].age)
     THEN /\ pc' = "failed"
          /\ UNCHANGED <<rows, groups, drawlog, i>>
     ELSE /\ \E r \in recalibrate_row(disk[input_file][i], age_group_means) :
               /\ rows' = Append(rows, r.row)
               /\ groups' = Append(groups, r.g)
               /\ Drawn(i, "gap",
                        recalibrate_row(disk[input_file][i], age_group_means), r)
          /\ i' = i + 1
          /\ pc' = pc
  /\ UNCHANGED <<setup, disk, age_group_means>>

\* the reader is exhausted: open(output_file, 'w'), writeheader(), writerows(rows)
ProdWrite ==
  /\ pass = "prod" /\ pc = "loop"
  /\ i > Len(disk[input_file])
  /\ disk' = [disk EXCEPT ![output_file] = rows]
  /\ pc' = "done"
  /\ UNCHANGED <<setup, rows, i, age_group_means, groups, drawlog>>

-----------------------------------------------------------------------------

Next ==
  \/ PlatformOpen \/ PlatformRow \/ PlatformClose
  \/ JobRead \/ JobApply \/ JobWrite
  \/ TeenRead \/ TeenExpandRow \/ TeenExpandEnd
  \/ TeenPlatformRow \/ TeenPlatformEnd \/ TeenTimeRow \/ TeenWrite
  \/ ProdMeans \/ ProdRow \/ ProdWrite

Spec == Init /\ [][Next]_vars

\* the output file of the run, once the run is over
Done == pc = "done"
Output == disk[output_file]

-----------------------------------------------------------------------------
(* The script run a second time on the same input *)

\* a fresh run of the script: the module is imported again, the files are
\* as they were before the first run, whose output and draws are kept aside
Rerun ==
  /\ pc = "done" /\ run = 1
  /\ run' = 2
  /\ first' = [out |-> Output, draws |-> drawlog]
  /\ disk' = [f \in Paths |-> IF f = input_file THEN dataset ELSE << >>]
  /\ rows' = << >>
  /\ i' = 1
  /\ pc' = "start"
  /\ age_group_means' = NoMeans
  /\ groups' = << >>
  /\ drawlog' = << >>
  /\ UNCHANGED <<pass, dataset, input_file, output_file>>

NextTwice == Next \/ Rerun

\* The ages of the inputs that are run twice: an age that draws, and a
\* missing age or an age of another bucket (or of none)
AgesTwice(p) ==
  CASE p = "platform" -> {None, Some(19999), Some(35000)}
    [] p = "job"      -> {None, Some(18000), Some(35000)}
    [] p = "teen"     -> {Some(18000), Some(20000)}
    [] p = "prod"     -> {None, Some(18000), Some(57000)}

InitTwice ==
  /\ Init
  /\ \A k \in DOMAIN dataset : dataset[k].age \in AgesTwice(pass)

SpecTwice == InitTwice /\ [][NextTwice]_vars

-----------------------------------------------------------------------------
(* The same passes called on any pair of paths, over inputs that may hold
   a cell float() rejects *)

\* what an earlier run left in a file that is not the input
StaleOutput == <<Row(None, 2)>>

\* the csv passes hand the age text to float(); pandas parses the column
AgesIO(p) == IF p \in {"platform", "prod"} THEN Ages(p) \cup {Garbled} ELSE Ages(p)

PoolIO(p) == UNION {{Row(a, v) : v \in Variants(p, a)} : a \in AgesIO(p)}

DatasetsIO(p) ==
  {d \in UNION {[1..n -> PoolIO(p)] : n \in 0..MaxRows} : Expanding(d) <= MaxExpand}

InitIO ==
  /\ pass \in Passes
  /\ dataset \in DatasetsIO(pass)
  /\ input_file \in Paths
  /\ output_file = OutputFile(pass)
  /\ run = 1
  /\ first = NoFirst
  /\ disk = [f \in Paths |-> IF f = input_file THEN dataset ELSE StaleOutput]
  /\ rows = << >> /\ i = 1 /\ pc = "start" /\ age_group_means = NoMeans
  /\ groups = << >> /\ drawlog = << >>

SpecIO == InitIO /\ [][Next]_vars

\* the content of the output file before the run
PriorOutput == IF input_file = output_file THEN dataset ELSE StaleOutput

-----------------------------------------------------------------------------
(* Properties *)

Fields == {"age", "gender", "job_type", "social_platform_preference",
           "daily_social_media_time", "actual_productivity_score",
           "perceived_productivity_score"}

\* the columns each pass is meant to rewrite
Targets(p) ==
  CASE p = "platform" -> {"social_platform_preference"}
    [] p = "job"      -> {"job_type"}
    [] p = "teen"     -> {"age", "social_platform_preference", "daily_social_media_time"}
    [] p = "prod"     -> {"actual_productivity_score", "perceived_productivity_score"}

\* a draw was taken for row k
DrewFor(k) == \E n \in DOMAIN drawlog : drawlog[n].row = k

ImpossibleJobs == {"Finance", "Health", "Education"}

\* C1: after the job-type pass, no row whose age is present and truncates to
\* 18..22 has job_type Finance, Health or Education.
C1_NoImpossibleJobs ==
  (pass = "job" /\ Done) =>
    \A k \in DOMAIN Output :
      (Output[k].age # None /\ Trunc(Output[k].age) \in 18..22)
        => Output[k].job_type \notin ImpossibleJobs

\* a row aged 19.999 that came in as Finance has been reassigned
C1_Witness ==
  /\ pass = "job" /\ Done
  /\ \E k \in DOMAIN Output :
       /\ dataset[k].age = Some(19999)
       /\ dataset[k].job_type = "Finance"
       /\ Output[k].job_type # "Finance"

\* C2: in every pass every column outside the pass's target set has the same
\* value in the output row as in the input row; the platform, job-type and
\* productivity passes never change age.
C2_FieldScope ==
  Done =>
    \A k \in DOMAIN Output \cap DOMAIN dataset :
      \A f \in Fields \ Targets(pass) : Output[k][f] = dataset[k][f]

\* a finished run that rewrote a target column of some row
C2_Witness ==
  /\ Done
  /\ \E k \in DOMAIN Output \cap DOMAIN dataset :
       \E f \in Targets(pass) : Output[k][f] # dataset[k][f]

\* the age of a row lies outside every bucket range of the pass
BucketMiss(p, age) ==
  /\ age # None
  /\ CASE p = "platform" -> get_age_group(age) = NoGroup
       [] p = "job"      -> Trunc(age) < 18
       [] p = "teen"     -> get_teen_age_group(age) = NoGroup
       [] p = "prod"     -> get_age_group_gaps(age) = NoGroup

\* C3: a row whose age is present but outside all bucket ranges of the pass
\* keeps its target columns, and no value is drawn for it.
C3_BucketMissUntouched ==
  Done =>
    \A k \in DOMAIN Output \cap DOMAIN dataset :
      BucketMiss(pass, dataset[k].age) =>
        /\ \A f \in Targets(pass) : Output[k][f] = dataset[k][f]
        /\ ~DrewFor(k)

\* C4: the output has as many rows as the input and row k of the output is
\* row k of the input, rewritten: nothing is dropped, duplicated or reordered.
C4_RowsPreserved ==
  Done =>
    /\ Len(Output) = Len(dataset)
    /\ \A k \in DOMAIN Output \cap DOMAIN dataset :
         /\ Output[k].gender = dataset[k].gender
         /\ Output[k].daily_social_media_time # dataset[k].daily_social_media_time
              => pass = "teen"
         /\ (pass # "teen" \/ dataset[k].age \notin TEEN_OLD_AGES)
              => Output[k].age = dataset[k].age

\* a finished run over a dataset with a skipped row and a rewritten row
C4_Witness ==
  /\ Done
  /\ Len(Output) >= 2
  /\ \E k \in DOMAIN dataset : dataset[k].age = None
  /\ \E k \in DOMAIN dataset : k \in DOMAIN Output /\ Output[k] # dataset[k]

\* the age a pass bucketed row k by (the teen pass buckets the redrawn age)
AgeSeen(k) == IF pass = "teen" THEN rows[k].age ELSE dataset[k].age

\* the bucket function of each pass
BucketOf(p, age) ==
  CASE p = "platform" -> get_age_group(age)
    [] p = "job"      -> job_age_branch(age)
    [] p = "teen"     -> get_teen_age_group(age)
    [] p = "prod"     -> get_age_group_gaps(age)

\* lowest lower bound and top of the ranges of each table, in years
\* (0 - 1: the table is open above)
LowestBound(p) == IF p = "teen" THEN 13 ELSE 18
TopBound(p) == CASE p = "teen" -> 19 [] p = "prod" -> 65 [] OTHER -> 0 - 1

\* C5: in each of the four bucket tables the ranges leave no gap between the
\* lowest lower bound and the top bucket, and a fractional age falls in the
\* bucket of its whole number of years (19.999 with 19, 20.0 with 20).
C5_BucketsPartition ==
  \A k \in DOMAIN groups :
    groups[k] # "skip" =>
      LET a == AgeSeen(k) IN
      /\ (LowestBound(pass) <= Trunc(a)
            /\ (TopBound(pass) < 0 \/ Val(a) <= Yr(TopBound(pass))))
           => groups[k] # NoGroup
      /\ Trunc(a) >= LowestBound(pass)
           => groups[k] = BucketOf(pass, Some(Yr(Trunc(a))))

\* C6: in the platform, teen and productivity passes a row without age is
\* written with every column as it was in the input.
C6_MissingAgePassThrough ==
  (Done /\ pass \in {"platform", "teen", "prod"}) =>
    \A k \in DOMAIN Output \cap DOMAIN dataset :
      dataset[k].age = None => Output[k] = dataset[k]

\* a finished run where a row without age stands beside a rewritten row
C6_Witness ==
  /\ Done /\ pass \in {"platform", "teen", "prod"}
  /\ \E k \in DOMAIN Output :
       /\ dataset[k].age = None
       /\ dataset[k].social_platform_preference # ""
       /\ Output[k] = dataset[k]
  /\ drawlog # << >>

\* C7: in the job-type pass a row without age gets job_type "Student",
\* whatever it was, and no value is drawn for it.
C7_MissingAgeStudent ==
  (pass = "job" /\ pc \in {"apply", "done"}) =>
    \A k \in DOMAIN rows :
      (k < i /\ dataset[k].age = None) =>
        /\ rows[k].job_type = "Student"
        /\ ~DrewFor(k)
        /\ (Done => Output[k].job_type = "Student")

\* a row without age that came in as Finance and went out as Student
C7_Witness ==
  /\ pass = "job" /\ Done
  /\ \E k \in DOMAIN Output :
       /\ dataset[k].age = None
       /\ dataset[k].job_type = "Finance"
       /\ Output[k].job_type = "Student"

\* the labels of the bucket of a teen age
TeenLabels(age) ==
  LET t == TEEN_AGE_PLATFORM_PROBABILITIES[get_teen_age_group(age)].platforms
  IN {t[k] : k \in DOMAIN t}

\* C8: after the teen pass every row whose final age is a whole number in
\* 13..19 has a platform of the label set of the bucket of that age; a row
\* aged 16 never ends with Telegram.
C8_TeenPlatformInLabels ==
  (pass = "teen" /\ Done) =>
    \A k \in DOMAIN Output :
      Output[k].age \in TEEN_NEW_AGES =>
        /\ Output[k].social_platform_preference \in TeenLabels(Output[k].age)
        /\ Output[k].age = Some(16000)
             => Output[k].social_platform_preference # "Telegram"

\* a row aged 16 that came in with Telegram
C8_Witness ==
  /\ pass = "teen" /\ Done
  /\ \E k \in DOMAIN Output :
       /\ dataset[k].age = Some(16000)
       /\ dataset[k].social_platform_preference = "Telegram"
       /\ Output[k].age = Some(16000)
       /\ Output[k].social_platform_preference \in TeenPlatforms

\* C9: after the teen pass every row whose final age is a whole number in
\* 13..19 has a daily_social_media_time within the range configured for the
\* bucket of its final age and the platform this pass wrote to it.
C9_TeenTimeInRange ==
  (pass = "teen" /\ Done) =>
    \A k \in DOMAIN Output :
      Output[k].age \in TEEN_NEW_AGES =>
        /\ Output[k].social_platform_preference \in TeenPlatforms
        /\ Output[k].daily_social_media_time # None
        /\ LET r == SOCIAL_MEDIA_TIME_RANGES[get_teen_age_group(Output[k].age)]
                                            [Output[k].social_platform_preference]
               t == Val(Output[k].daily_social_media_time)
           IN r[1] <= t /\ t <= r[2]

\* a row redrawn from 18 to 13 that got TikTok and a time of 9 hours, which
\* the range of age 18 does not allow
C9_Witness ==
  /\ pass = "teen" /\ Done
  /\ \E k \in DOMAIN Output :
       /\ dataset[k].age = Some(18000)
       /\ Output[k].age = Some(13000)
       /\ Output[k].social_platform_preference = "TikTok"
       /\ Output[k].daily_social_media_time = Some(900)

\* C10: after the productivity pass every recalibrated row has a
\* perceived_productivity_score within [0, 10].
C10_PerceivedInRange ==
  (pass = "prod" /\ pc \in {"loop", "done"}) =>
    \A k \in DOMAIN rows :
      DrewFor(k) =>
        /\ rows[k].perceived_productivity_score # None
        /\ 0 <= Val(rows[k].perceived_productivity_score)
        /\ Val(rows[k].perceived_productivity_score) <= 1000
        /\ (Done => Output[k].perceived_productivity_score
                      = rows[k].perceived_productivity_score)

\* both limits were applied: a row of 9.8 raised to 10 and a row of 0.2 put at 0
C10_Witness ==
  /\ pass = "prod" /\ Done
  /\ \E k \in DOMAIN Output :
       /\ dataset[k].actual_productivity_score = Some(980)
       /\ Output[k].perceived_productivity_score = Some(1000)
  /\ \E k \in DOMAIN Output :
       /\ dataset[k].actual_productivity_score = Some(20)
       /\ DrewFor(k)
       /\ Output[k].perceived_productivity_score = Some(0)

-----------------------------------------------------------------------------
(* Failure and in-place runs *)

\* C11: in every pass, when the run has failed while processing a record
\* (an age that is not a number), the output file holds what it held before
\* the run (a failed run has no complete output to hold instead): it is
\* neither truncated nor partially written.
C11_NoPartialOutput ==
  (/\ pc = "failed"
   /\ \E k \in DOMAIN disk[input_file] : float_raises(disk[input_file][k].age))
    => Output = PriorOutput

\* C12: a pass run with its output path equal to its input path reads every
\* input record before any is overwritten (the file keeps the input until
\* the pass writes its finished output), and fails only where a run with a
\* distinct output path fails, on a record it cannot parse.
C12_InPlaceReadsFirst ==
  input_file = output_file =>
    /\ ~Done => disk[input_file] = dataset
    /\ pc = "failed" => \E k \in DOMAIN dataset : float_raises(dataset[k].age)

-----------------------------------------------------------------------------
(* Reproducibility *)

sweep(what) == IF what = "age" THEN 1 ELSE IF what = "time" THEN 3 ELSE 2

\* C14 as stated: in every pass, every draw made for a record happens
\* before any draw made for a later record, the teen pass with its several
\* draws per record included.
C14_DrawsInRecordOrder ==
  \A m, n \in DOMAIN drawlog : m < n => drawlog[m].row <= drawlog[n].row

\* C14, amended: in every pass the generator is drawn from in record order
\* within each sweep over the records. The platform, job and productivity
\* passes make one sweep, so every draw for a record happens before any draw
\* for a later record; the teen pass makes three sweeps (all new ages, then
\* all platforms, then all times), each in record order.
\* (Stated for each draw and the next one: the order by sweep, then by
\* record, is transitive.)
C14_DrawsInSweepOrder ==
  \A n \in DOMAIN drawlog :
    n > 1 =>
      \/ sweep(drawlog[n - 1].what) < sweep(drawlog[n].what)
      \/ /\ drawlog[n - 1].what = drawlog[n].what
         /\ drawlog[n - 1].row < drawlog[n].row

\* a teen run has finished that drew an age, platforms and times, and drew
\* for the first record after it drew for the second
C14_Witness ==
  /\ pass = "teen" /\ Done
  /\ {drawlog[n].what : n \in DOMAIN drawlog} = {"age", "platform", "time"}
  /\ \E m, n \in DOMAIN drawlog : m < n /\ drawlog[m].row > drawlog[n].row

-----------------------------------------------------------------------------
(* Imputation and gaps of the productivity pass *)

\* the input rows of bucket g that have both age and actual score
Scored(g) ==
  {j \in DOMAIN dataset :
     /\ dataset[j].age # None
     /\ dataset[j].actual_productivity_score # None
     /\ get_age_group_gaps(dataset[j].age) = g}

\* the sum of the actual scores of the input rows S
RECURSIVE SumActual(_)
SumActual(S) ==
  IF S = {} THEN 0
  ELSE LET j == CHOOSE x \in S : TRUE
       IN Val(dataset[j].actual_productivity_score) + SumActual(S \ {j})

\* input row k has an age inside a bucket and no actual score
Imputable(k) ==
  /\ dataset[k].age # None
  /\ get_age_group_gaps(dataset[k].age) # NoGroup
  /\ dataset[k].actual_productivity_score = None

\* output row k holds the mean of the scored input rows of bucket g as its
\* actual score, and a perceived score recalibrated from it with one draw
ImputedAndRecalibrated(k, g) ==
  /\ Output[k].actual_productivity_score # None
  /\ Val(Output[k].actual_productivity_score) * Cardinality(Scored(g))
       = SumActual(Scored(g))
  /\ Output[k].perceived_productivity_score # None
  /\ \E n \in DOMAIN drawlog :
       /\ drawlog[n].row = k
       /\ drawlog[n].v \in Uniform(AGE_GROUP_GAPS[g].gap_min, AGE_GROUP_GAPS[g].gap_max)
       /\ Val(Output[k].perceived_productivity_score)
            = clamp_score(Val(Output[k].actual_productivity_score) + drawlog[n].v)

\* C15 as stated: after the productivity pass, every record that has an age
\* inside a bucket but no actual score has the mean of the actual scores of
\* the input records of its bucket (those with age and score) as its actual
\* score, and is recalibrated rather than skipped.
C15_ImputedAlways ==
  (pass = "prod" /\ Done) =>
    \A k \in DOMAIN dataset :
      Imputable(k) => ImputedAndRecalibrated(k, get_age_group_gaps(dataset[k].age))

\* C15, amended: after the productivity pass, every record that has an age
\* inside a bucket but no actual score has the mean of the actual scores of
\* the input records of its bucket (those with age and score, taken from the
\* input before any record is rewritten) as its actual score and is
\* recalibrated like any other record, provided at least one input record
\* of its bucket has both age and actual score; otherwise there is no mean
\* and the record is skipped and written unchanged.
C15_ImputedWhenMean ==
  (pass = "prod" /\ Done) =>
    \A k \in DOMAIN dataset :
      Imputable(k) =>
        LET g == get_age_group_gaps(dataset[k].age) IN
        IF Scored(g) # {}
        THEN ImputedAndRecalibrated(k, g)
        ELSE Output[k] = dataset[k] /\ ~DrewFor(k)

\* a productivity run has finished on an input with a record without actual
\* score in a bucket that has a scored record, which now holds an actual score
C15_Witness ==
  /\ pass = "prod" /\ Done
  /\ \E k \in DOMAIN dataset :
       /\ Imputable(k)
       /\ Scored(get_age_group_gaps(dataset[k].age)) # {}
       /\ Output[k].actual_productivity_score # None
       /\ Output[k].perceived_productivity_score # None

\* actual_gap = new_perceived - actual, as written to the row and recorded
actual_gap(row) ==
  Val(row.perceived_productivity_score) - Val(row.actual_productivity_score)

\* C16 as stated: after the productivity pass, for every recalibrated record
\* perceived_productivity_score minus actual_productivity_score lies within
\* the [gap_min, gap_max] range of the record's age bucket.
C16_GapInRange ==
  (pass = "prod" /\ Done) =>
    \A k \in DOMAIN Output :
      DrewFor(k) =>
        LET c == AGE_GROUP_GAPS[get_age_group_gaps(Output[k].age)]
        IN c.gap_min <= actual_gap(Output[k]) /\ actual_gap(Output[k]) <= c.gap_max

\* C16, amended: after the productivity pass, for every recalibrated record
\* whose perceived score was not clamped, perceived minus actual lies within
\* the [gap_min, gap_max] range of the record's age bucket; when the
\* perceived score was clamped to 10 the gap is at most gap_max and may be
\* below gap_min, and when it was clamped to 0 the gap is at least gap_min.
C16_GapInRangeUnlessClamped ==
  (pass = "prod" /\ Done) =>
    \A k \in DOMAIN Output :
      DrewFor(k) =>
        LET c == AGE_GROUP_GAPS[get_age_group_gaps(Output[k].age)]
            perceived == Val(Output[k].perceived_productivity_score)
        IN /\ perceived # 1000 => c.gap_min <= actual_gap(Output[k])
           /\ perceived # 0 => actual_gap(Output[k]) <= c.gap_max

\* a productivity run has finished with a record recalibrated inside its
\* range and a record whose perceived score is 10 and whose gap is below
\* the gap_min of its bucket
C16_Witness ==
  /\ pass = "prod" /\ Done
  /\ \E k \in DOMAIN Output :
       /\ DrewFor(k)
       /\ Val(Output[k].perceived_productivity_score) = 1000
       /\ actual_gap(Output[k])
            < AGE_GROUP_GAPS[get_age_group_gaps(Output[k].age)].gap_min
  /\ \E k \in DOMAIN Output :
       /\ DrewFor(k)
       /\ Val(Output[k].perceived_productivity_score) \notin {0, 1000}
====
